---- MODULE Spec2Model ----
(***************************************************************************)
(* A model of scripts/syscalls_history.py: the script that loads Systrack  *)
(* syscall tables, sorts them by kernel version and prints, for every      *)
(* table, its syscall count and the syscalls added, removed and renamed    *)
(* since the previous version.                                             *)
(*                                                                         *)
(* Text is modelled as a sequence of one-character strings, so that        *)
(* parsing (tag_to_tuple), concatenation (arch_bits_abi) and padding       *)
(* (ljust) are computed as the script computes them.  ESC stands for the   *)
(* character \033.                                                         *)
(***************************************************************************)
EXTENDS Integers, Sequences, FiniteSets, TLC

\* ------------------------------------------------------------------ bounds

\* The largest number of table files one run loads.
MaxTables == 3

\* The largest number of records in one table's "syscalls" array.
MaxSyscalls == 2

\* The largest number of command-line arguments after the program name.
MaxArgs == 3

\* ------------------------------------------------------------ text helpers

ESC == "ESC"

None == <<>>

Some(x) == <<x>>

DigitChars == <<"0", "1", "2", "3", "4", "5", "6", "7", "8", "9">>

IsDigit(c) == \E k \in 1..10 : DigitChars[k] = c

DigitVal(c) == (CHOOSE k \in 1..10 : DigitChars[k] = c) - 1

Front(s) == SubSeq(s, 1, Len(s) - 1)

Last(s) == s[Len(s)]

HasEsc(s) == \E k \in 1..Len(s) : s[k] = ESC

\* str.split(sep): the parts between the separators; always at least one
\* part, and an empty part wherever two separators touch or one ends the text.
RECURSIVE Split(_, _)
Split(s, sep) ==
    IF \A k \in 1..Len(s) : s[k] # sep
    THEN <<s>>
    ELSE LET p == CHOOSE k \in 1..Len(s) :
                      s[k] = sep /\ \A j \in 1..(k - 1) : s[j] # sep
         IN  <<SubSeq(s, 1, p - 1)>> \o Split(SubSeq(s, p + 1, Len(s)), sep)

\* int(text) succeeds: over the characters the model's tags are written in
\* (letters, digits and the dot), int() accepts exactly the non-empty digit
\* strings; leading zeros are accepted.
IsIntLiteral(s) == Len(s) >= 1 /\ \A k \in 1..Len(s) : IsDigit(s[k])

\* int(text) of a digit string.
RECURSIVE ParseInt(_)
ParseInt(s) ==
    IF s = <<>> THEN 0 ELSE ParseInt(Front(s)) * 10 + DigitVal(Last(s))

\* str(n) of a natural number.
RECURSIVE Str(_)
Str(n) ==
    IF n < 10 THEN <<DigitChars[n + 1]>>
    ELSE Str(n \div 10) \o <<DigitChars[(n % 10) + 1]>>

\* text.ljust(width): padded with spaces on the right, never truncated.
RECURSIVE Ljust(_, _)
Ljust(s, width) == IF Len(s) >= width THEN s ELSE Ljust(s \o <<" ">>, width)

TagWidth == 5

\* -------------------------------------------------------------- tag_to_tuple

LATEST == <<"l", "a", "t", "e", "s", "t">>

\* An element of a version tuple: an int, or float('inf').
Fin(k) == [inf |-> FALSE, n |-> k]

Inf == [inf |-> TRUE, n |-> 0]

ElemLess(a, b) == IF a.inf THEN FALSE ELSE (b.inf \/ a.n < b.n)

\* Python's tuple comparison: the first differing element decides; a proper
\* prefix is smaller.
RECURSIVE TupleLess(_, _)
TupleLess(a, b) ==
    IF b = <<>> THEN FALSE
    ELSE IF a = <<>> THEN TRUE
    ELSE IF Head(a) = Head(b) THEN TupleLess(Tail(a), Tail(b))
    ELSE ElemLess(Head(a), Head(b))

\* tag_to_tuple raises: IndexError on the empty tag, AssertionError when the
\* tag does not start with 'v', ValueError when a dotted part is no int.
tag_raises(tag) ==
    /\ tag # LATEST
    /\ \/ tag = <<>>
       \/ tag[1] # "v"
       \/ LET parts == Split(Tail(tag), ".")
          IN  \E k \in 1..Len(parts) : ~IsIntLiteral(parts[k])

tag_to_tuple(tag) ==
    IF tag = LATEST THEN <<Inf>>
    ELSE LET parts == Split(Tail(tag), ".")
         IN  [k \in 1..Len(parts) |-> Fin(ParseInt(parts[k]))]

\* ------------------------------------------------------------------ tables

\* A table as json.load returns it, with the fields the script reads.
Table(version, aname, bits, abi, syscalls) ==
    [kernel |-> [version |-> version,
                 architecture |-> [name |-> aname, bits |-> bits],
                 abi |-> [name |-> abi]],
     syscalls |-> syscalls]

Syscall(number, name) == [number |-> number, name |-> name]

\* arch_bits_abi without the ABI name.
arch_bits_only(table) ==
    table.kernel.architecture.name
        \o <<"/">> \o Str(table.kernel.architecture.bits)

arch_bits_abi(table) ==
    table.kernel.architecture.name
        \o <<"/">> \o Str(table.kernel.architecture.bits)
        \o <<"/">> \o table.kernel.abi.name

\* tables.sort(key=...): a stable sort, an element goes after every element
\* whose key is not greater than its own.
Insert(sorted, t) ==
    LET key == tag_to_tuple(t.kernel.version)
        after == {k \in 1..Len(sorted) :
                     TupleLess(key, tag_to_tuple(sorted[k].kernel.version))}
        p == IF after = {} THEN Len(sorted) + 1
             ELSE CHOOSE k \in after : \A j \in after : k <= j
    IN  SubSeq(sorted, 1, p - 1) \o <<t>> \o SubSeq(sorted, p, Len(sorted))

RECURSIVE SortByVersion(_)
SortByVersion(ts) ==
    IF ts = <<>> THEN <<>> ELSE Insert(SortByVersion(Front(ts)), Last(ts))

Tags(ts) == {ts[k].kernel.version : k \in 1..Len(ts)}

\* DictItems with the first record of a number staying instead of the last.
DictItemsFirstWins(records) ==
    {<<records[k].number, records[k].name>> :
        k \in {k \in 1..Len(records) :
                  \A j \in 1..(k - 1) :
                      records[j].number # records[k].number}}

\* DictItems as a plain set of pairs, two names of one number both staying.
DictItemsAllPairs(records) ==
    {<<records[k].number, records[k].name>> : k \in 1..Len(records)}

\* dict(map(itemgetter('number', 'name'), records)).items(): of the records
\* with one number the last one stays.
DictItems(records) ==
    {<<records[k].number, records[k].name>> :
        k \in {k \in 1..Len(records) :
                  \A j \in (k + 1)..Len(records) :
                      records[j].number # records[k].number}}

\* ------------------------------------------------------------------- state

VARIABLES
    args,           \* argv[1:]: per argument, the tables glob() finds for it
    isatty,         \* isatty(sys.stdout.fileno())
    pc,             \* position in main
    tables,         \* the list of loaded tables
    i,              \* position of the for loop in tables
    arch, prev_arch, syscalls, prev_syscalls,
    n_added, n_removed, n_renamed, diff,
    stdout,         \* what was printed: one block per processed table
    stderr,         \* the message the run ended with
    status          \* the exit status, -1 while running

vars == <<args, isatty, pc, tables, i, arch, prev_arch, syscalls,
          prev_syscalls, n_added, n_removed, n_renamed, diff,
          stdout, stderr, status>>

loopvars == <<arch, prev_arch, syscalls, prev_syscalls,
              n_added, n_removed, n_renamed, diff>>

\* ------------------------------------------------------------------ colours

RED == IF isatty THEN <<ESC, "[", "9", "1", "m">> ELSE <<>>

GREEN == IF isatty THEN <<ESC, "[", "9", "2", "m">> ELSE <<>>

BLUE == IF isatty THEN <<ESC, "[", "9", "4", "m">> ELSE <<>>

\* RESET left at the escape sequence when the output is no terminal.
ResetAlways == <<ESC, "[", "0", "m">>

RESET == IF isatty THEN <<ESC, "[", "0", "m">> ELSE <<>>

PLUS == GREEN \o <<"+">>

MINUS == RED \o <<"-">>

RENAME == BLUE \o <<"R">>

ARROW == <<" ", "-", ">", " ">>

\* -------------------------------------------------------------------- diff

\* d[k] = v of a dict.
Put(d, k, v) == [x \in (DOMAIN d) \cup {k} |-> IF x = k THEN v ELSE d[x]]

\* The orders in which iterating a set may yield its elements.
Orders(S) ==
    {o \in [1..Cardinality(S) -> S] : \A x \in S : \E k \in DOMAIN o : o[k] = x}

added_of(cur, prev) == cur \ prev

removed_of(cur, prev) == prev \ cur

\* for num, name in removed: diff[num] = (MINUS, name)
RECURSIVE RemovedLoop(_, _)
RemovedLoop(order, d) ==
    IF order = <<>> THEN d
    ELSE RemovedLoop(Tail(order),
                     Put(d, Head(order)[1], <<MINUS, Head(order)[2]>>))

\* AddedStep without the test "num in diff": every added pair is an addition.
AddedStepNoRename(st, num, name) ==
    [st EXCEPT !.diff = Put(st.diff, num, <<PLUS, name>>)]

\* One pass of the body of "for num, name in added".
AddedStep(st, num, name) ==
    IF num \in DOMAIN st.diff
    THEN [diff |-> Put(st.diff, num,
                       <<RENAME, st.diff[num][2] \o ARROW \o name>>),
          n_added |-> st.n_added - 1,
          n_removed |-> st.n_removed - 1,
          n_renamed |-> st.n_renamed + 1]
    ELSE [st EXCEPT !.diff = Put(st.diff, num, <<PLUS, name>>)]

RECURSIVE AddedLoop(_, _)
AddedLoop(order, st) ==
    IF order = <<>> THEN st
    ELSE AddedLoop(Tail(order),
                   AddedStep(st, Head(order)[1], Head(order)[2]))

\* The keys of sorted(diff.items()): no two items share a key, so the items
\* come in ascending order of the key.
RECURSIVE SortedKeys(_)
SortedKeys(S) ==
    IF S = {} THEN <<>>
    ELSE LET m == CHOOSE x \in S : \A y \in S : x <= y
         IN  <<m>> \o SortedKeys(S \ {m})

RECURSIVE Reverse(_)
Reverse(s) == IF s = <<>> THEN <<>> ELSE Reverse(Tail(s)) \o <<Head(s)>>

\* DiffLines with the items sorted in descending order.
DiffLinesDescending(d) ==
    LET keys == Reverse(SortedKeys(DOMAIN d))
    IN  [k \in 1..Len(keys) |->
            [op |-> d[keys[k]][1], num |-> keys[k],
             text |-> d[keys[k]][2], reset |-> RESET]]

\* The diff lines: '       {op} {num} ({num:#x}) {name}{RESET}' per item.
DiffLines(d) ==
    LET keys == SortedKeys(DOMAIN d)
    IN  [k \in 1..Len(keys) |->
            [op |-> d[keys[k]][1], num |-> keys[k],
             text |-> d[keys[k]][2], reset |-> RESET]]

\* What lines 105-107 print between the parentheses.
Summary(na, nr, nn) ==
    (IF na # 0
     THEN <<[sep |-> <<>>, mark |-> PLUS, n |-> na,
             suffix |-> <<>>, reset |-> RESET]>>
     ELSE <<>>)
    \o
    (IF nr # 0
     THEN <<[sep |-> IF na # 0 THEN <<"/">> ELSE <<>>, mark |-> MINUS,
             n |-> nr, suffix |-> <<>>, reset |-> RESET]>>
     ELSE <<>>)
    \o
    (IF nn # 0
     THEN <<[sep |-> IF na # 0 \/ nr # 0 THEN <<",", " ">> ELSE <<>>,
             mark |-> BLUE, n |-> nn,
             suffix |-> <<" ", "r", "e", "n", "a", "m", "e", "d">>,
             reset |-> RESET]>>
     ELSE <<>>)

\* What one pass of the for loop prints.
Block(tag, count, paren, summary, lines) ==
    [tag |-> Ljust(tag, TagWidth), count |-> count, paren |-> paren,
     summary |-> summary, lines |-> lines]

\* ------------------------------------------------------------------ actions

RECURSIVE Flatten(_)
Flatten(ss) == IF ss = <<>> THEN <<>> ELSE Head(ss) \o Flatten(Tail(ss))

Exit(msg) ==
    /\ pc' = "exit"
    /\ stderr' = msg
    /\ status' = 1

\* lines 32-33
Usage ==
    /\ pc = "start"
    /\ Len(args) + 1 < 3
    /\ Exit("usage")
    /\ UNCHANGED <<args, isatty, tables, i, loopvars, stdout>>

\* lines 47-52
Load ==
    /\ pc = "start"
    /\ ~(Len(args) + 1 < 3)
    /\ tables' = Flatten(args)
    /\ pc' = "sort"
    /\ UNCHANGED <<args, isatty, i, loopvars, stdout, stderr, status>>

\* line 54, a key function raises
SortRaises ==
    /\ pc = "sort"
    /\ \E k \in 1..Len(tables) : tag_raises(tables[k].kernel.version)
    /\ Exit("traceback")
    /\ UNCHANGED <<args, isatty, tables, i, loopvars, stdout>>

\* line 54
Sort ==
    /\ pc = "sort"
    /\ \A k \in 1..Len(tables) : ~tag_raises(tables[k].kernel.version)
    /\ tables' = SortByVersion(tables)
    /\ pc' = "check"
    /\ UNCHANGED <<args, isatty, i, loopvars, stdout, stderr, status>>

\* UniqueTags with > written for !=.
UniqueTagsNever(ts) == ~(Cardinality(Tags(ts)) > Len(ts))

UniqueTags(ts) == Cardinality(Tags(ts)) = Len(ts)

\* lines 56-58
Duplicate ==
    /\ pc = "check"
    /\ ~UniqueTags(tables)
    /\ Exit("duplicate")
    /\ UNCHANGED <<args, isatty, tables, i, loopvars, stdout>>

\* lines 56-60
Unique ==
    /\ pc = "check"
    /\ UniqueTags(tables)
    /\ pc' = "loop"
    /\ i' = 1
    /\ UNCHANGED <<args, isatty, tables, loopvars, stdout, stderr, status>>

\* lines 63-70
Incompatible ==
    /\ pc = "loop"
    /\ i <= Len(tables)
    /\ arch # None
    /\ Some(arch_bits_abi(tables[i])) # arch
    /\ prev_arch' = arch
    /\ prev_syscalls' = syscalls
    /\ arch' = Some(arch_bits_abi(tables[i]))
    /\ Exit("incompatible")
    /\ UNCHANGED <<args, isatty, tables, i, syscalls, n_added, n_removed,
                   n_renamed, diff, stdout>>

\* lines 63-78, the first table
First ==
    /\ pc = "loop"
    /\ i <= Len(tables)
    /\ arch = None
    /\ syscalls = None
    /\ prev_arch' = arch
    /\ prev_syscalls' = syscalls
    /\ arch' = Some(arch_bits_abi(tables[i]))
    /\ syscalls' = Some(DictItems(tables[i].syscalls))
    /\ stdout' = Append(stdout,
           Block(tables[i].kernel.version,
                 Cardinality(DictItems(tables[i].syscalls)),
                 FALSE, <<>>, <<>>))
    /\ i' = i + 1
    /\ UNCHANGED <<args, isatty, pc, tables, n_added, n_removed, n_renamed,
                   diff, stderr, status>>

\* lines 63-85, a table with the syscalls of the one before it
Same ==
    /\ pc = "loop"
    /\ i <= Len(tables)
    /\ arch = Some(arch_bits_abi(tables[i]))
    /\ syscalls # None
    /\ LET cur == DictItems(tables[i].syscalls)
           prev == syscalls[1]
       IN  /\ added_of(cur, prev) = {}
           /\ removed_of(cur, prev) = {}
           /\ syscalls' = Some(cur)
           /\ stdout' = Append(stdout,
                  Block(tables[i].kernel.version, Cardinality(cur),
                        FALSE, <<>>, <<>>))
    /\ prev_arch' = arch
    /\ prev_syscalls' = syscalls
    /\ arch' = Some(arch_bits_abi(tables[i]))
    /\ i' = i + 1
    /\ UNCHANGED <<args, isatty, pc, tables, n_added, n_removed, n_renamed,
                   diff, stderr, status>>

\* lines 63-111, a table whose syscalls differ from the ones before
Differ ==
    /\ pc = "loop"
    /\ i <= Len(tables)
    /\ arch = Some(arch_bits_abi(tables[i]))
    /\ syscalls # None
    /\ LET cur == DictItems(tables[i].syscalls)
           prev == syscalls[1]
           added == added_of(cur, prev)
           removed == removed_of(cur, prev)
       IN  /\ ~(added = {} /\ removed = {})
           /\ \E rorder \in Orders(removed), aorder \in Orders(added) :
                LET st == AddedLoop(aorder,
                              [diff |-> RemovedLoop(rorder, <<>>),
                               n_added |-> Cardinality(added),
                               n_removed |-> Cardinality(removed),
                               n_renamed |-> 0])
                IN  /\ n_added' = st.n_added
                    /\ n_removed' = st.n_removed
                    /\ n_renamed' = st.n_renamed
                    /\ diff' = st.diff
                    /\ stdout' = Append(stdout,
                           Block(tables[i].kernel.version, Cardinality(cur),
                                 TRUE,
                                 Summary(st.n_added, st.n_removed,
                                         st.n_renamed),
                                 DiffLines(st.diff)))
           /\ syscalls' = Some(cur)
    /\ prev_arch' = arch
    /\ prev_syscalls' = syscalls
    /\ arch' = Some(arch_bits_abi(tables[i]))
    /\ i' = i + 1
    /\ UNCHANGED <<args, isatty, pc, tables, stderr, status>>

\* the loop ends, main returns
Finish ==
    /\ pc = "loop"
    /\ i > Len(tables)
    /\ pc' = "done"
    /\ status' = 0
    /\ UNCHANGED <<args, isatty, tables, i, loopvars, stdout, stderr>>

Next ==
    \/ Usage
    \/ Load
    \/ SortRaises
    \/ Sort
    \/ Duplicate
    \/ Unique
    \/ Incompatible
    \/ First
    \/ Same
    \/ Differ
    \/ Finish

\* ------------------------------------------------------------------ inputs

SeqsUpTo(S, n) == UNION {[1..k -> S] : k \in 0..n}

\* Syscall names; NameE holds an escape character.
NameF == <<"f">>

NameG == <<"g">>

NameE == <<ESC, "g">>

\* The version tag of the k-th table of a history given in version order.
TagOf(k) == <<"v">> \o Str(k)

\* The descriptor fields of the tables where the architecture is not at stake.
PlainTable(version, records) == Table(version, <<"x">>, 64, <<"y">>, records)

\* "table1.json table2.json ...": one argument per file.
OnePerArg(files) == [k \in 1..Len(files) |-> <<files[k]>>]

\* Histories of two or three tables, each table carrying one of two arrays.
Patterns(a, b) == {<<a, b>>, <<a, b, a>>, <<a, b, b>>, <<a, a, b>>}

History(arrays) == [k \in 1..Len(arrays) |-> PlainTable(TagOf(k), arrays[k])]

DiffRecords == {Syscall(1, NameF), Syscall(1, NameG), Syscall(2, NameF)}

\* Tables of one architecture in version order whose syscall arrays vary,
\* arrays with two records of one number included.
DiffInputs ==
    {OnePerArg(History(h)) :
        h \in UNION {Patterns(ab[1], ab[2]) :
                        ab \in SeqsUpTo(DiffRecords, MaxSyscalls)
                               \X SeqsUpTo(DiffRecords, MaxSyscalls)}}

ColourRecords == {Syscall(1, NameF), Syscall(1, NameE), Syscall(2, NameG)}

\* Two tables whose syscall names may hold an escape character.
ColourInputs ==
    {OnePerArg(History(<<ab[1], ab[2]>>)) :
        ab \in SeqsUpTo(ColourRecords, MaxSyscalls)
               \X SeqsUpTo(ColourRecords, MaxSyscalls)}

\* Version tags: well-formed ones, some of them equal as version tuples, a
\* tag with an empty number, a tag without the leading v and a tag with an
\* escape character.
TagSet ==
    {LATEST,
     <<"v", "1">>, <<"v", "0", "1">>, <<"v", "1", "0">>,
     <<"v", "0", ".", "1", "0">>, <<"v", "0", ".", "1", "1">>,
     <<"v", "1", ".", "0">>, <<"v", "1", ".", "1">>,
     <<"v", "1", ".">>, <<"1", ".", "0">>, <<"v", "1", ESC>>}

\* Tables of one architecture in any order of their tags; the k-th file
\* holds the syscall number k.
SortInputs ==
    {OnePerArg([k \in 1..Len(tags) |->
                   PlainTable(tags[k], <<Syscall(k, NameF)>>)]) :
        tags \in SeqsUpTo(TagSet, MaxTables)}

\* Architecture names, bit widths and ABI names, some of which concatenate
\* to the same descriptor.
ArchSet ==
    {<<<<"a">>, <<"a", "/", "1">>>>[n] : n \in 1..2}
    \X {1, 2}
    \X {<<<<"b">>, <<"1", "/", "b">>>>[n] : n \in 1..2}

\* Tables in version order whose architecture varies.
ArchInputs ==
    {OnePerArg([k \in 1..Len(as) |->
                   Table(TagOf(k), as[k][1], as[k][2], as[k][3],
                         <<Syscall(k, NameF)>>)]) :
        as \in SeqsUpTo(ArchSet, MaxTables)}

\* The ways glob() distributes the files over n arguments: argument k gets
\* the files after cut[k-1] up to cut[k].
Distribute(files, n) ==
    {[k \in 1..n |->
         SubSeq(files, (IF k = 1 THEN 0 ELSE cut[k - 1]) + 1, cut[k])] :
        cut \in {c \in [1..n -> 0..Len(files)] :
                    /\ \A k \in 1..(n - 1) : c[k] <= c[k + 1]
                    /\ n > 0 => c[n] = Len(files)}}

ArgFiles ==
    {PlainTable(TagOf(1), <<Syscall(1, NameF)>>),
     PlainTable(TagOf(2), <<Syscall(1, NameG)>>)}

\* Glob patterns that match no file, one file or several files.
ArgInputs ==
    UNION {Distribute(files, n) :
              files \in SeqsUpTo(ArgFiles, MaxTables), n \in 1..MaxArgs}
    \cup {<<>>}

Inputs ==
    [a : ArgInputs \cup ArchInputs, tty : BOOLEAN]
    \cup [a : DiffInputs \cup ColourInputs, tty : BOOLEAN]
    \cup [a : SortInputs, tty : {FALSE}]

Init ==
    /\ \E in \in Inputs : args = in.a /\ isatty = in.tty
    /\ pc = "start"
    /\ tables = <<>>
    /\ i = 0
    /\ arch = None
    /\ prev_arch = None
    /\ syscalls = None
    /\ prev_syscalls = None
    /\ n_added = 0
    /\ n_removed = 0
    /\ n_renamed = 0
    /\ diff = <<>>
    /\ stdout = <<>>
    /\ stderr = ""
    /\ status = -1

Spec == Init /\ [][Next]_vars

\* ================================================================== claims

\* The numbers of a table's records.
Numbers(records) == {records[k].number : k \in 1..Len(records)}

\* The name a table maps a number to: that of its last record with the number.
NameIn(records, n) ==
    LET last == CHOOSE k \in 1..Len(records) :
                    /\ records[k].number = n
                    /\ \A j \in (k + 1)..Len(records) : records[j].number # n
    IN  records[last].name

\* Two tables map the same numbers to the same names.
SameMapping(r1, r2) ==
    /\ Numbers(r1) = Numbers(r2)
    /\ \A n \in Numbers(r1) : NameIn(r1, n) = NameIn(r2, n)

\* The positions of the lines of a block that are about the number n.
LinesAbout(block, n) == {j \in 1..Len(block.lines) : block.lines[j].num = n}

LinesWith(block, op) == {j \in 1..Len(block.lines) : block.lines[j].op = op}

\* The block of the k-th table reports the diff between tables k-1 and k.
RightDiff(k) ==
    LET prev == tables[k - 1].syscalls
        cur == tables[k].syscalls
        block == stdout[k]
    IN  \A n \in Numbers(prev) \cup Numbers(cur)
                 \cup {block.lines[j].num : j \in 1..Len(block.lines)} :
            LET inPrev == n \in Numbers(prev)
                inCur == n \in Numbers(cur)
                about == LinesAbout(block, n)
            IN  IF inPrev /\ inCur /\ NameIn(prev, n) = NameIn(cur, n)
                THEN about = {}
                ELSE /\ Cardinality(about) = 1
                     /\ \A j \in about :
                          LET line == block.lines[j]
                          IN  IF ~inPrev
                              THEN line.op = PLUS /\ line.text = NameIn(cur, n)
                              ELSE IF ~inCur
                              THEN /\ line.op = MINUS
                                   /\ line.text = NameIn(prev, n)
                              ELSE /\ line.op = RENAME
                                   /\ line.text = NameIn(prev, n) \o ARROW
                                                  \o NameIn(cur, n)

\* C1: for every table after the first, the printed diff is taken against
\* the table right before it (also when that one printed no diff): a number
\* has exactly one line when its name differs between the two tables or it
\* is in only one of them, and no line otherwise; the line is an addition of
\* the current name, a removal of the previous name, or a rename from the
\* previous name to the current one.
C1_DiffOfConsecutiveTables ==
    /\ Len(stdout) >= 1 => stdout[1].lines = <<>>
    /\ \A k \in 2..Len(stdout) : RightDiff(k)

\* A third table renamed and added syscalls after a second table that
\* printed no diff.
C1_Witness ==
    /\ Len(stdout) = 3
    /\ ~stdout[2].paren
    /\ LinesWith(stdout[3], RENAME) # {}
    /\ LinesWith(stdout[3], PLUS) # {}

\* C7: a table that maps the same numbers to the same names as the table
\* before it prints its tag and its syscall count only, no parenthesized
\* summary and no diff line, whatever the order of the records in the arrays.
C7_NoDiffForSameSyscalls ==
    \A k \in 2..Len(stdout) :
        SameMapping(tables[k - 1].syscalls, tables[k].syscalls)
        => /\ ~stdout[k].paren
           /\ stdout[k].summary = <<>>
           /\ stdout[k].lines = <<>>
           /\ stdout[k].tag = Ljust(tables[k].kernel.version, TagWidth)
           /\ stdout[k].count = Cardinality(Numbers(tables[k].syscalls))

\* Two arrays with the same mapping and their records in different order,
\* one of them with two records of one number.
C7_Witness ==
    \E k \in 2..Len(stdout) :
        /\ SameMapping(tables[k - 1].syscalls, tables[k].syscalls)
        /\ tables[k - 1].syscalls # tables[k].syscalls
        /\ Len(tables[k].syscalls) > Cardinality(Numbers(tables[k].syscalls))
        /\ ~stdout[k].paren
        /\ stdout[k].count = 1

\* C10: where a summary is printed, the three counts are not negative, each
\* is the number of diff lines of its kind, their sum is the number of diff
\* lines, and the summary prints at least one of them; arrays with several
\* records of one number included.
C10_CountsMatchLines ==
    /\ \A k \in 1..Len(stdout) :
         LET block == stdout[k]
         IN  block.paren
             => /\ block.summary # <<>>
                /\ block.summary =
                       Summary(Cardinality(LinesWith(block, PLUS)),
                               Cardinality(LinesWith(block, MINUS)),
                               Cardinality(LinesWith(block, RENAME)))
    /\ (stdout # <<>> /\ Last(stdout).paren)
       => /\ n_added = Cardinality(LinesWith(Last(stdout), PLUS))
          /\ n_removed = Cardinality(LinesWith(Last(stdout), MINUS))
          /\ n_renamed = Cardinality(LinesWith(Last(stdout), RENAME))
          /\ n_added + n_removed + n_renamed = Len(Last(stdout).lines)
          /\ n_added + n_removed + n_renamed > 0
    /\ n_added >= 0 /\ n_removed >= 0 /\ n_renamed >= 0

\* A rename and a removal printed for arrays one of which has two records
\* of one number.
C10_Witness ==
    \E k \in 2..Len(stdout) :
        /\ stdout[k].paren
        /\ Len(tables[k - 1].syscalls)
               > Cardinality(Numbers(tables[k - 1].syscalls))
        /\ k = Len(stdout)
        /\ n_renamed = 1
        /\ n_added = 0

\* The arrays with the records of s in every order.
Perms(s) ==
    {[k \in 1..Len(s) |-> s[f[k]]] : f \in Permutations(1..Len(s))}

\* No two records of the array give one number two names.
NoClash(records) ==
    \A j, k \in 1..Len(records) :
        records[j].number = records[k].number
        => records[j].name = records[k].name

\* The diff lines the loop body prints for two arrays, the sets iterated in
\* one fixed order.
LinesFor(prevRecords, curRecords) ==
    LET prev == DictItems(prevRecords)
        cur == DictItems(curRecords)
        added == added_of(cur, prev)
        removed == removed_of(cur, prev)
        rorder == CHOOSE o \in Orders(removed) : TRUE
        aorder == CHOOSE o \in Orders(added) : TRUE
    IN  DiffLines(AddedLoop(aorder,
                      [diff |-> RemovedLoop(rorder, <<>>),
                       n_added |-> Cardinality(added),
                       n_removed |-> Cardinality(removed),
                       n_renamed |-> 0]).diff)

Ascending(lines) ==
    \A j, k \in 1..Len(lines) : j < k => lines[j].num < lines[k].num

\* C8, for arrays that give no number two names: the diff lines of every
\* table come in strictly ascending order of the syscall number, one line
\* per number at most, and they are the same for every order of the records
\* in the two arrays, provided neither array gives one number two names.
\* (Stated of the block printed last; every block is the last one right
\* after it is printed.)
C8_SortedAndOrderFree ==
    /\ \A k \in 1..Len(stdout) : Ascending(stdout[k].lines)
    /\ LET k == Len(stdout)
       IN  (k >= 2 /\ NoClash(tables[k - 1].syscalls)
                   /\ NoClash(tables[k].syscalls))
           => \A p \in Perms(tables[k - 1].syscalls),
                 q \in Perms(tables[k].syscalls) :
                  LinesFor(p, q) = stdout[k].lines

\* C8 for all arrays: the diff lines are the same for every order of the
\* records of any two arrays, those that give one number two names included.
C8_OrderFreeAlways ==
    LET k == Len(stdout)
    IN  k >= 2
        => \A p \in Perms(tables[k - 1].syscalls),
              q \in Perms(tables[k].syscalls) :
               LinesFor(p, q) = stdout[k].lines

\* A removal of number 1 and an addition of number 2 printed in this order
\* for two arrays of two records each.
C8_Witness ==
    LET k == Len(stdout)
    IN  /\ k >= 2
        /\ Len(tables[k - 1].syscalls) = 2
        /\ Len(tables[k].syscalls) = 2
        /\ NoClash(tables[k - 1].syscalls)
        /\ NoClash(tables[k].syscalls)
        /\ Len(stdout[k].lines) = 2
        /\ stdout[k].lines[1].op = MINUS
        /\ stdout[k].lines[2].op = PLUS

\* The syscall names a loaded table holds.
NamesOf(table) == {table.syscalls[k].name : k \in 1..Len(table.syscalls)}

\* The pieces of text of a block that the script writes itself: the padded
\* tag and the separators, marks, suffixes and resets of summary and lines.
OwnText(block) ==
    {block.tag}
    \cup UNION {{block.summary[j].sep, block.summary[j].mark,
                 block.summary[j].suffix, block.summary[j].reset} :
                   j \in 1..Len(block.summary)}
    \cup UNION {{block.lines[j].op, block.lines[j].reset} :
                   j \in 1..Len(block.lines)}

\* All pieces of text of a block.
AllText(block) ==
    OwnText(block) \cup {block.lines[j].text : j \in 1..Len(block.lines)}

\* C9, for the text the script writes itself: when standard output is no
\* terminal the script writes no escape sequence of its own; the printed
\* text holds an escape character only inside a syscall name that holds one
\* in the input tables, which is printed as it is.
C9_NoOwnEscapes ==
    ~isatty
    => \A k \in 1..Len(stdout) :
          /\ \A t \in OwnText(stdout[k]) : ~HasEsc(t)
          /\ \A j \in 1..Len(stdout[k].lines) :
                HasEsc(stdout[k].lines[j].text)
                => \E m \in 1..Len(tables) :
                      \E name \in NamesOf(tables[m]) : HasEsc(name)

\* C9 for all of the output: when standard output is no terminal there is
\* no escape character in the printed text, whatever the input.
C9_NoEscapesAtAll ==
    ~isatty
    => \A k \in 1..Len(stdout) : \A t \in AllText(stdout[k]) : ~HasEsc(t)

\* Output to a pipe with a summary, a rename and a removal, of tables whose
\* names hold no escape character.
C9_Witness ==
    /\ ~isatty
    /\ \A m \in 1..Len(tables) : \A name \in NamesOf(tables[m]) : ~HasEsc(name)
    /\ \E k \in 1..Len(stdout) :
          /\ Len(stdout[k].summary) = 2
          /\ LinesWith(stdout[k], RENAME) # {}
          /\ LinesWith(stdout[k], MINUS) # {}

\* Some loaded tables share a version tag.
SharedTag == pc # "start" /\ Cardinality(Tags(tables)) < Len(tables)

\* C5, with the error the run ends with: when loaded tables share a version
\* tag, the run ends with
\* a nonzero exit status before any table is processed and nothing is ever
\* printed; it ends with the duplicate-version message when every loaded tag
\* is "latest" or v<int>.<int>..., and with the error tag_to_tuple raises
\* while sorting otherwise.
C5_DuplicateStopsBeforeOutput ==
    SharedTag
    => /\ stdout = <<>>
       /\ pc \in {"sort", "check", "exit"}
       /\ pc = "exit"
          => /\ status # 0
             /\ stderr = IF \E k \in 1..Len(tables) :
                               tag_raises(tables[k].kernel.version)
                         THEN "traceback"
                         ELSE "duplicate"

\* C5 with the duplicate-version error only: when loaded tables share a
\* version tag nothing is printed and the run always ends with the
\* duplicate-version message.
C5_AlwaysDuplicateError ==
    SharedTag
    => /\ stdout = <<>>
       /\ pc \in {"sort", "check", "exit"}
       /\ pc = "exit" => (status # 0 /\ stderr = "duplicate")

\* Three sorted tables, the last two with one tag, stopped by the check.
C5_Witness ==
    /\ SharedTag
    /\ Len(tables) = 3
    /\ tables[1].kernel.version # tables[2].kernel.version
    /\ tables[2].kernel.version = tables[3].kernel.version
    /\ pc = "exit"
    /\ stderr = "duplicate"
    /\ stdout = <<>>

\* The arch/bits/abi descriptor of a table.
Descriptor(table) ==
    table.kernel.architecture.name
        \o <<"/">> \o Str(table.kernel.architecture.bits)
        \o <<"/">> \o table.kernel.abi.name

\* The first table whose descriptor differs from its predecessor's, 0 if
\* there is none.
FirstMismatch ==
    LET bad == {k \in 2..Len(tables) :
                   Descriptor(tables[k]) # Descriptor(tables[k - 1])}
    IN  IF bad = {} THEN 0 ELSE CHOOSE k \in bad : \A j \in bad : k <= j

\* C6: the first table whose descriptor differs from its predecessor's ends
\* the run with the incompatible-architecture message and a nonzero status;
\* the blocks of the tables before it are printed and stay, nothing is
\* printed for it or for a later table; so all tables with a block share
\* one descriptor.
C6_MismatchStopsTheLoop ==
    /\ \A j, k \in 1..Len(stdout) :
          Descriptor(tables[j]) = Descriptor(tables[k])
    /\ \A k \in 1..Len(stdout) :
          /\ stdout[k].tag = Ljust(tables[k].kernel.version, TagWidth)
          /\ stdout[k].count = Cardinality(Numbers(tables[k].syscalls))
    /\ (pc = "loop" /\ FirstMismatch # 0) => i <= FirstMismatch
    /\ pc = "done" => FirstMismatch = 0 /\ Len(stdout) = Len(tables)
    /\ stderr = "incompatible"
       => /\ pc = "exit"
          /\ status # 0
          /\ FirstMismatch # 0
          /\ Len(stdout) = FirstMismatch - 1

\* The second of three tables has another ABI name: one block is printed and
\* the run has ended.
C6_Witness ==
    /\ stderr = "incompatible"
    /\ Len(tables) = 3
    /\ Len(stdout) = 1
    /\ tables[1].kernel.abi.name # tables[2].kernel.abi.name
    /\ tables[1].kernel.architecture = tables[2].kernel.architecture

\* C2: whenever the arguments resolve to fewer than two tables, glob
\* patterns that match too few files included, nothing is printed and the run
\* ends with the usage message and a nonzero status.
C2_UsageWhenFewerThanTwoTables ==
    Len(Flatten(args)) < 2
    => /\ stdout = <<>>
       /\ pc # "done"
       /\ pc = "exit" => (status # 0 /\ stderr = "usage")

\* The version tuples of the processed tables.
TupleAt(k) == tag_to_tuple(tables[k].kernel.version)

\* C3: of the tables that pass the unique-tag check, each processed table
\* has a version tuple strictly greater than that of the table processed
\* right before it.
C3_StrictlyIncreasingVersions ==
    \A k \in 2..Len(stdout) : TupleLess(TupleAt(k - 1), TupleAt(k))

TagSeq(ts) == [k \in 1..Len(ts) |-> ts[k].kernel.version]

\* C4: the sorted order of the tags is the same for every order of the
\* input tables, and a table tagged "latest" comes after every table with a
\* v-tag.
C4_SortIgnoresInputOrder ==
    pc \in {"check", "loop", "done"}
    => /\ \A p \in Perms(Flatten(args)) :
             TagSeq(SortByVersion(p)) = TagSeq(tables)
       /\ \A j, k \in 1..Len(tables) :
             (tables[j].kernel.version = LATEST
                  /\ tables[k].kernel.version # LATEST)
             => k < j

====
